---------------------------- MODULE Spec2Model ----------------------------
(***************************************************************************)
(* Knowledge-base service of bridgebot: document ingestion, the inverted   *)
(* term index, search and deletion                                         *)
(* (backend/src/services/knowledgeService.js and the knowledge routes).    *)
(*                                                                         *)
(* Strings are sequences of one-character strings, so that lowercasing,    *)
(* the regular-expression replace and split are computed character by      *)
(* character as the JavaScript does.                                       *)
(*                                                                         *)
(* A JavaScript Map is modelled with its insertion order: the per-user     *)
(* document Map is a sequence of documents with distinct ids, the index    *)
(* Map is a function from the terms present to their entries.  An index    *)
(* entry is a JavaScript Set of object literals: Set membership is object  *)
(* identity, every add of a fresh literal grows the Set, so an entry is    *)
(* the sequence of the references added, in insertion order.               *)
(*                                                                         *)
(* Document fields that no modelled operation reads (title, description,   *)
(* fileName, fileSize, mimeType, the timestamps) are left out.             *)
(***************************************************************************)
EXTENDS Integers, Sequences, FiniteSets, TLC

VARIABLES documents, documentIndex, files, tasks, deleting, deleteResults,
          chunkCall, chunkResult, chunkIndex,
          termsCall, termsResult, relevantCall, relevantResult

\* the arguments and the result of a call of chunkText on its own, and the
\* index i of its loop
chunkerVars == <<chunkCall, chunkResult, chunkIndex>>

\* the argument and the result of a call of extractSearchTerms on its own
tokenizerVars == <<termsCall, termsResult>>

\* the arguments and the result of a call of findRelevantChunks on its own
relevanceVars == <<relevantCall, relevantResult>>

\* the calls of the pure functions on their own
pureVars == <<chunkerVars, tokenizerVars, relevanceVars>>

vars == <<documents, documentIndex, files, tasks, deleting, deleteResults,
          pureVars>>

(***************************************************************************)
(* Bounds and input domains                                                *)
(***************************************************************************)
\* number of processDocument calls (document ids doc_1 .. doc_MaxDocs)
MaxDocs == 2

DocIds == 1..MaxDocs

Users == {"u1", "u2"}

Categories == {"general", "research"}

\* the category option when the caller gives none (undefined / '')
NoCategory == ""

\* file contents:  "Apple pie, apple"   "the pie is ok"
Texts ==
  { <<"A","p","p","l","e"," ","p","i","e",","," ","a","p","p","l","e">>,
    <<"t","h","e"," ","p","i","e"," ","i","s"," ","o","k">> }

\* queries:  ""   " "   "apple"   "Pie pie"   "pie apple"
Queries ==
  { <<>>, <<" ">>, <<"a","p","p","l","e">>, <<"P","i","e"," ","p","i","e">>,
    <<"p","i","e"," ","a","p","p","l","e">> }

MimeTypes ==
  { "application/pdf", "text/plain", "application/msword", "application/zip" }

(***************************************************************************)
(* JavaScript string primitives                                            *)
(***************************************************************************)
Range(s) == { s[i] : i \in DOMAIN s }

LowerLetters ==
  <<"a","b","c","d","e","f","g","h","i","j","k","l","m",
    "n","o","p","q","r","s","t","u","v","w","x","y","z">>

UpperLetters ==
  <<"A","B","C","D","E","F","G","H","I","J","K","L","M",
    "N","O","P","Q","R","S","T","U","V","W","X","Y","Z">>

Digits == {"0","1","2","3","4","5","6","7","8","9"}

\* \w of a JavaScript regular expression: [A-Za-z0-9_]
WordChars ==
  Range(LowerLetters) \cup Range(UpperLetters) \cup Digits \cup {"_"}

IsWordChar(c) == c \in WordChars

\* \s of a JavaScript regular expression (the members in the alphabet used)
IsSpace(c) == c \in {" ", "\t", "\n", "\r"}

\* the lower-case letter of each upper-case letter
LowerOf ==
  [c \in Range(UpperLetters) |->
     LowerLetters[CHOOSE i \in DOMAIN UpperLetters : UpperLetters[i] = c]]

toLowerChar(c) == IF c \in DOMAIN LowerOf THEN LowerOf[c] ELSE c

\* String.prototype.toLowerCase
toLowerCase(text) == [i \in DOMAIN text |-> toLowerChar(text[i])]

\* text.replace(/[^\w\s]/g, ' ')
replaceNonWord(text) ==
  [i \in DOMAIN text |->
     IF IsWordChar(text[i]) \/ IsSpace(text[i]) THEN text[i] ELSE " "]

\* text.split(/\s+/): the pieces between maximal runs of white space; a
\* leading or trailing run gives an empty first or last piece, '' gives [''].
RECURSIVE splitFrom(_, _, _, _, _)
splitFrom(text, i, cur, acc, inSpace) ==
  IF i > Len(text) THEN Append(acc, cur)
  ELSE IF IsSpace(text[i])
    THEN IF inSpace THEN splitFrom(text, i + 1, cur, acc, TRUE)
         ELSE splitFrom(text, i + 1, <<>>, Append(acc, cur), TRUE)
    ELSE splitFrom(text, i + 1, Append(cur, text[i]), acc, FALSE)

split(text) == splitFrom(text, 1, <<>>, <<>>, FALSE)

\* words.join(' ')
RECURSIVE join(_)
join(words) ==
  IF words = <<>> THEN <<>>
  ELSE IF Len(words) = 1 THEN words[1]
  ELSE words[1] \o <<" ">> \o join(Tail(words))

\* chunk.trim() is the empty string
TrimIsEmpty(text) == \A i \in DOMAIN text : IsSpace(text[i])

\* Array.prototype.slice(from, to) with 0-based from <= to
slice(arr, from, to) ==
  SubSeq(arr, from + 1, IF to > Len(arr) THEN Len(arr) ELSE to)

Min(a, b) == IF a < b THEN a ELSE b

(***************************************************************************)
(* Tokenizer                                                               *)
(***************************************************************************)
stopWords ==
  { <<"t","h","e">>, <<"a">>, <<"a","n">>, <<"a","n","d">>, <<"o","r">>,
    <<"b","u","t">>, <<"i","n">>, <<"o","n">>, <<"a","t">>, <<"t","o">>,
    <<"f","o","r">>, <<"o","f">>, <<"w","i","t","h">>, <<"b","y">>,
    <<"i","s">>, <<"a","r","e">>, <<"w","a","s">>, <<"w","e","r","e">>,
    <<"b","e">>, <<"b","e","e","n">>, <<"h","a","v","e">>, <<"h","a","s">>,
    <<"h","a","d">>, <<"d","o">>, <<"d","o","e","s">>, <<"d","i","d">>,
    <<"w","i","l","l">>, <<"w","o","u","l","d">>, <<"c","o","u","l","d">>,
    <<"s","h","o","u","l","d">>, <<"t","h","i","s">>, <<"t","h","a","t">>,
    <<"t","h","e","s","e">>, <<"t","h","o","s","e">>, <<"i">>,
    <<"y","o","u">>, <<"h","e">>, <<"s","h","e">>, <<"i","t">>, <<"w","e">>,
    <<"t","h","e","y">> }

isStopWord(word) == word \in stopWords

\* the array of terms, in text order, repeated terms kept
extractSearchTerms(text) ==
  LET words == split(replaceNonWord(toLowerCase(text)))
      long  == SelectSeq(words, LAMBDA term : Len(term) > 2)
  IN  SelectSeq(long, LAMBDA term : ~isStopWord(term))

(***************************************************************************)
(* Chunker                                                                 *)
(***************************************************************************)
\* processDocument's chunk size
ChunkSize == 1000

\* chunkText's default overlap
DefaultOverlap == 100

\* Faulty variant of chunkFrom: the window advances by chunkSize + overlap.
RECURSIVE chunkFromWideStep(_, _, _, _, _)
chunkFromWideStep(words, i, chunkSize, overlap, chunks) ==
  IF ~(i < Len(words)) THEN chunks
  ELSE LET chunk == join(slice(words, i, i + chunkSize))
           next  == IF TrimIsEmpty(chunk) THEN chunks
                    ELSE Append(chunks,
                           [text       |-> chunk,
                            startIndex |-> i,
                            wordCount  |-> Min(chunkSize, Len(words) - i)])
       IN  chunkFromWideStep(words, i + (chunkSize + overlap), chunkSize,
                             overlap, next)

RECURSIVE chunkFrom(_, _, _, _, _)
chunkFrom(words, i, chunkSize, overlap, chunks) ==
  IF ~(i < Len(words)) THEN chunks
  ELSE LET chunk == join(slice(words, i, i + chunkSize))
           next  == IF TrimIsEmpty(chunk) THEN chunks
                    ELSE Append(chunks,
                           [text       |-> chunk,
                            startIndex |-> i,
                            wordCount  |-> Min(chunkSize, Len(words) - i)])
       IN  chunkFrom(words, i + (chunkSize - overlap), chunkSize, overlap, next)

chunkText(text, chunkSize, overlap) ==
  chunkFrom(split(text), 0, chunkSize, overlap, <<>>)


(***************************************************************************)
(* Term index                                                              *)
(***************************************************************************)
\* documentIndex.get(term) || new Set()
entryOf(index, term) == IF term \in DOMAIN index THEN index[term] ELSE <<>>

\* the terms.forEach of indexDocument: every occurrence of a term adds a
\* fresh reference object to the term's Set
RECURSIVE indexTerms(_, _, _)
indexTerms(index, terms, ref) ==
  IF terms = <<>> THEN index
  ELSE LET term == Head(terms)
           added == [t \in DOMAIN index \cup {term} |->
                       IF t = term THEN Append(entryOf(index, term), ref)
                       ELSE index[t]]
       IN  indexTerms(added, Tail(terms), ref)

\* Faulty variant of indexDocument: every term of the document gets a new
\* Set (documentIndex.set(term, new Set([ref]))), whatever the index held.
indexDocumentNewSets(index, document) ==
  LET terms == Range(extractSearchTerms(document.extractedText))
      ref   == [documentId |-> document.id,
                userId     |-> document.userId,
                category   |-> document.category]
  IN  [term \in DOMAIN index \cup terms |->
         IF term \in terms THEN <<ref>> ELSE index[term]]

indexDocument(index, document) ==
  indexTerms(index, extractSearchTerms(document.extractedText),
             [documentId |-> document.id,
              userId     |-> document.userId,
              category   |-> document.category])

\* Faulty variant of removeFromIndex: drops every entry that holds a
\* reference to the document, the references of other documents with it.
removeTermsOf(index, documentId) ==
  LET left == { term \in DOMAIN index :
                  \A i \in DOMAIN index[term] :
                     index[term][i].documentId # documentId }
  IN  [term \in left |-> index[term]]

\* Faulty variant of removeFromIndex: deletes one reference per entry (as a
\* Set keyed by document identity would need), not all of them.
removeFirstReference(index, documentId) ==
  LET first(term) ==
        CHOOSE i \in DOMAIN index[term] :
          /\ index[term][i].documentId = documentId
          /\ \A j \in 1..(i - 1) : index[term][j].documentId # documentId
      kept(term) ==
        IF \E i \in DOMAIN index[term] : index[term][i].documentId = documentId
          THEN SubSeq(index[term], 1, first(term) - 1)
                 \o SubSeq(index[term], first(term) + 1, Len(index[term]))
          ELSE index[term]
      left == { term \in DOMAIN index : kept(term) # <<>> }
  IN  [term \in left |-> kept(term)]

\* Faulty variant of removeFromIndex: an entry that lost its last reference
\* stays in the index as an empty Set.
removeFromIndexKeepsEmpty(index, documentId) ==
  [term \in DOMAIN index |->
     SelectSeq(index[term], LAMBDA doc : doc.documentId # documentId)]

\* the forEach over documentIndex.entries(): the references of the document
\* are deleted from every Set, and a term whose Set is left empty is deleted

removeFromIndex(index, documentId) ==
  LET kept(term) ==
        SelectSeq(index[term], LAMBDA doc : doc.documentId # documentId)
      left == { term \in DOMAIN index : kept(term) # <<>> }
  IN  [term \in left |-> kept(term)]

(***************************************************************************)
(* Document store helpers (Map operations)                                 *)
(***************************************************************************)
\* userDocs.has(documentId)
hasDoc(userDocs, documentId) ==
  \E i \in DOMAIN userDocs : userDocs[i].id = documentId

\* userDocs.get(documentId), for a present key
getDoc(userDocs, documentId) ==
  userDocs[CHOOSE i \in DOMAIN userDocs : userDocs[i].id = documentId]

\* userDocs.set(document.id, document)
setDoc(userDocs, document) ==
  IF hasDoc(userDocs, document.id)
    THEN [i \in DOMAIN userDocs |->
            IF userDocs[i].id = document.id THEN document ELSE userDocs[i]]
    ELSE Append(userDocs, document)

\* userDocs.delete(documentId)
deleteDoc(userDocs, documentId) ==
  SelectSeq(userDocs, LAMBDA doc : doc.id # documentId)

(***************************************************************************)
(* Search                                                                  *)
(***************************************************************************)
\* searchKnowledgeBase's default limit
DefaultLimit == 10

\* findRelevantChunks' maxChunks
MaxChunks == 3

\* Faulty variant of addScore: the scores are kept in a list of hits, not in
\* a Map keyed by document id.
addScoreAsList(scores, documentId) ==
  Append(scores, [documentId |-> documentId, score |-> 1])

\* documentScores.set(id, (documentScores.get(id) || 0) + 1); the Map keeps
\* the order of first insertion
addScore(scores, documentId) ==
  IF \E i \in DOMAIN scores : scores[i].documentId = documentId
    THEN [i \in DOMAIN scores |->
            IF scores[i].documentId = documentId
              THEN [scores[i] EXCEPT !.score = @ + 1]
              ELSE scores[i]]
    ELSE Append(scores, [documentId |-> documentId, score |-> 1])

\* matchingDocs.forEach
RECURSIVE scoreEntry(_, _, _)
scoreEntry(scores, entry, userId) ==
  IF entry = <<>> THEN scores
  ELSE scoreEntry(IF Head(entry).userId = userId
                    THEN addScore(scores, Head(entry).documentId)
                    ELSE scores,
                  Tail(entry), userId)

\* searchTerms.forEach
RECURSIVE scoreTerms(_, _, _, _)
scoreTerms(scores, searchTerms, index, userId) ==
  IF searchTerms = <<>> THEN scores
  ELSE scoreTerms(scoreEntry(scores, entryOf(index, Head(searchTerms)), userId),
                  Tail(searchTerms), index, userId)

\* Faulty variant of insertByScore: an unstable sort, equal scores come out
\* in reverse order.
insertBeforeTies(sorted, e) ==
  LET before == SelectSeq(sorted, LAMBDA x : x.score > e.score)
      after  == SelectSeq(sorted, LAMBDA x : x.score <= e.score)
  IN  before \o <<e>> \o after

\* Array.prototype.sort((a, b) => b.score - a.score): stable, descending
RECURSIVE insertByScore(_, _)
insertByScore(sorted, e) ==
  IF sorted = <<>> THEN <<e>>
  ELSE IF Head(sorted).score >= e.score
    THEN <<Head(sorted)>> \o insertByScore(Tail(sorted), e)
    ELSE <<e>> \o sorted

RECURSIVE sortByScore(_, _)
sortByScore(sorted, rest) ==
  IF rest = <<>> THEN sorted
  ELSE sortByScore(insertByScore(sorted, Head(rest)), Tail(rest))

\* (chunkText.match(new RegExp(term, 'g')) || []).length: the occurrences of
\* term found left to right without overlap (a term is made of \w only)
RECURSIVE countMatches(_, _, _)
countMatches(text, term, i) ==
  IF i + Len(term) - 1 > Len(text) THEN 0
  ELSE IF SubSeq(text, i, i + Len(term) - 1) = term
    THEN 1 + countMatches(text, term, i + Len(term))
    ELSE countMatches(text, term, i + 1)

\* searchTerms.reduce((acc, term) => acc + matches, 0)
RECURSIVE sumMatches(_, _)
sumMatches(text, searchTerms) ==
  IF searchTerms = <<>> THEN 0
  ELSE countMatches(text, Head(searchTerms), 1)
         + sumMatches(text, Tail(searchTerms))

\* Faulty variant of findRelevantChunks: the first maxChunks chunks of the
\* document are taken before the sort.
findFirstChunks(chunks, searchTerms, maxChunks) ==
  LET chunkScores ==
        [i \in DOMAIN chunks |->
           [text       |-> chunks[i].text,
            startIndex |-> chunks[i].startIndex,
            wordCount  |-> chunks[i].wordCount,
            score      |-> sumMatches(toLowerCase(chunks[i].text), searchTerms)]]
  IN  SelectSeq(sortByScore(<<>>, slice(chunkScores, 0, maxChunks)),
                LAMBDA chunk : chunk.score > 0)

findRelevantChunks(chunks, searchTerms, maxChunks) ==
  LET chunkScores ==
        [i \in DOMAIN chunks |->
           [text       |-> chunks[i].text,
            startIndex |-> chunks[i].startIndex,
            wordCount  |-> chunks[i].wordCount,
            score      |-> sumMatches(toLowerCase(chunks[i].text), searchTerms)]]
  IN  SelectSeq(slice(sortByScore(<<>>, chunkScores), 0, maxChunks),
                LAMBDA chunk : chunk.score > 0)

\* String.prototype.includes
includes(text, term) ==
  \E i \in 1..(Len(text) - Len(term) + 1) :
     SubSeq(text, i, i + Len(term) - 1) = term

\* the for loop over sortedDocs
RECURSIVE collectResults(_, _, _, _)
collectResults(sortedDocs, userDocs, searchTerms, category) ==
  IF sortedDocs = <<>> THEN <<>>
  ELSE LET documentId == Head(sortedDocs).documentId
           rest == collectResults(Tail(sortedDocs), userDocs, searchTerms,
                                  category)
       IN  IF ~hasDoc(userDocs, documentId) THEN rest
           ELSE LET doc == getDoc(userDocs, documentId)
                    lowered == toLowerCase(doc.extractedText)
                IN  IF category # NoCategory /\ doc.category # category
                      THEN rest
                      ELSE << [document |-> [id |-> doc.id,
                                             category |-> doc.category],
                               score |-> Head(sortedDocs).score,
                               relevantChunks |->
                                 findRelevantChunks(doc.chunks, searchTerms,
                                                    MaxChunks),
                               matchedTerms |->
                                 SelectSeq(searchTerms, LAMBDA term :
                                   includes(lowered, term))] >> \o rest

\* Faulty variant of searchKnowledgeBase: the owner scope is forgotten, in
\* the scoring and in the lookup of the documents.
searchAnyOwner(docs, index, query, userId, limit, category) ==
  LET searchTerms    == extractSearchTerms(query)
      other          == CHOOSE v \in Users : v # userId
      userDocs       == docs[userId] \o docs[other]
      documentScores == scoreTerms(scoreTerms(<<>>, searchTerms, index, userId),
                                   searchTerms, index, other)
      sortedDocs     == slice(sortByScore(<<>>, documentScores), 0, limit)
  IN  collectResults(sortedDocs, userDocs, searchTerms, category)

\* Faulty variant of searchKnowledgeBase: the category filter is applied to
\* all the candidates and the limit afterwards.
searchCategoryFirst(docs, index, query, userId, limit, category) ==
  LET searchTerms    == extractSearchTerms(query)
      userDocs       == docs[userId]
      documentScores == scoreTerms(<<>>, searchTerms, index, userId)
      sortedDocs     == sortByScore(<<>>, documentScores)
  IN  slice(collectResults(sortedDocs, userDocs, searchTerms, category),
            0, limit)

searchKnowledgeBase(docs, index, query, userId, limit, category) ==
  LET searchTerms    == extractSearchTerms(query)
      userDocs       == docs[userId]
      documentScores == scoreTerms(<<>>, searchTerms, index, userId)
      sortedDocs     == slice(sortByScore(<<>>, documentScores), 0, limit)
  IN  collectResults(sortedDocs, userDocs, searchTerms, category)

(***************************************************************************)
(* Requests                                                                *)
(***************************************************************************)
\* the upload filter of the route (multer fileFilter)
allowedTypes ==
  { "application/pdf", "text/plain", "text/markdown", "application/msword",
    "application/vnd.openxmlformats-officedocument.wordprocessingml.document" }

\* the cases of processDocument's switch on file.mimetype
IsPdf(mimeType) == mimeType = "application/pdf"

\* Faulty variant of IsPlainText: Word files are read as text.
IsPlainTextOrWord(mimeType) ==
  mimeType \in {"text/plain", "text/markdown", "application/msword"}

IsPlainText(mimeType) == mimeType \in {"text/plain", "text/markdown"}

NoError == [kind |-> "none", type |-> ""]

\* new Error(`Unsupported file type: ${file.mimetype}`)
UnsupportedError(mimeType) ==
  [kind |-> "Unsupported file type", type |-> mimeType]

\* new Error('Failed to extract text from PDF')
ExtractionError == [kind |-> "Failed to extract text from PDF", type |-> ""]

\* an ingestion that has not started; one that has returned its document
\* (the route answers 201); one that has thrown (the route answers 500)
IdleTask ==
  [pc |-> "idle", userId |-> "", category |-> "", mimeType |-> "",
   error |-> NoError]

DoneTask ==
  [pc |-> "done", userId |-> "", category |-> "", mimeType |-> "",
   error |-> NoError]

FailedTask ==
  [pc |-> "failed", userId |-> "", category |-> "", mimeType |-> "",
   error |-> NoError]

\* an ingestion in its catch block: only the file and the error are still
\* used
ThrowingTask(pc, mimeType, error) ==
  [pc |-> pc, userId |-> "", category |-> "", mimeType |-> mimeType,
   error |-> error]

\* no call of chunkText on its own is made; the call has not returned
NoCall == [text |-> <<>>, chunkSize |-> 0, overlap |-> 0]

NotReturned == [returned |-> FALSE, chunks |-> <<>>]

\* no call of extractSearchTerms on its own is made
NoTermsCall == [called |-> FALSE, text |-> <<>>]

NoTerms == [returned |-> FALSE, terms |-> <<>>]

\* no call of findRelevantChunks on its own is made
NoRelevantCall == [called |-> FALSE, chunks |-> <<>>, searchTerms |-> <<>>]

NoRelevant == [returned |-> FALSE, chunks |-> <<>>]

\* the service before any request
NoRequests ==
  /\ documents = [u \in Users |-> <<>>]
  /\ documentIndex = <<>>
  /\ files = {}
  /\ tasks = [n \in DocIds |-> IdleTask]
  /\ deleting = {}
  /\ deleteResults = {}

\* no call of chunkText on its own
NoChunkerCall ==
  /\ chunkCall = NoCall
  /\ chunkResult = NotReturned
  /\ chunkIndex = 0

\* no call of extractSearchTerms on its own
NoTokenizerCall ==
  /\ termsCall = NoTermsCall
  /\ termsResult = NoTerms

\* no call of findRelevantChunks on its own
NoRelevanceCall ==
  /\ relevantCall = NoRelevantCall
  /\ relevantResult = NoRelevant

\* generateDocumentId: a fresh id per processDocument call.  The upload of
\* call n is stored by multer under a path of its own, named n as well.
HasIdle == \E n \in DocIds : tasks[n].pc = "idle"

NextId == CHOOSE n \in DocIds :
            /\ tasks[n].pc = "idle"
            /\ \A m \in DocIds : m < n => tasks[m].pc # "idle"

Init ==
  /\ documents = [u \in Users |-> <<>>]
  /\ documentIndex = <<>>
  /\ files = {}
  /\ tasks = [n \in DocIds |-> IdleTask]
  /\ deleting = {}
  /\ deleteResults = {}
  /\ NoChunkerCall
  /\ NoTokenizerCall
  /\ NoRelevanceCall

(***************************************************************************)
(* Ingestion: POST /upload and processDocument                             *)
(***************************************************************************)
\* The route's file filter.  A refused upload stores no file and never
\* reaches the handler, so a type outside allowedTypes gets to
\* processDocument only from a caller other than the route.
fileFilter(mimeType) == mimeType \in allowedTypes

\* Faulty variant of ProcessDocumentBegin: the document is put in the store
\* with status 'processing' before the extraction is awaited.
ProcessDocumentBeginStoresEarly(userId, category, mimeType) ==
  /\ HasIdle
  /\ LET n == NextId
     IN  /\ files' = files \cup {n}
         /\ tasks' = [tasks EXCEPT ![n] =
              IF IsPdf(mimeType) \/ IsPlainText(mimeType)
                THEN [pc |-> "extract", userId |-> userId,
                      category |-> category, mimeType |-> mimeType,
                      error |-> NoError]
                ELSE ThrowingTask("cleanup", mimeType,
                                  UnsupportedError(mimeType))]
         /\ documents' =
              IF IsPdf(mimeType) \/ IsPlainText(mimeType)
                THEN [documents EXCEPT ![userId] =
                        Append(@, [id |-> n, userId |-> userId,
                                   category |-> category, filePath |-> n,
                                   createdAt |-> n, extractedText |-> <<>>,
                                   chunks |-> <<>>, wordCount |-> 0,
                                   status |-> "processing"])]
                ELSE documents
  /\ UNCHANGED <<documentIndex, deleting>>
  /\ UNCHANGED <<deleteResults, pureVars>>

\* Faulty variant of ProcessDocumentBegin: the index is emptied for a
\* rebuild when an ingestion starts.
ProcessDocumentBeginClearsIndex(userId, category, mimeType) ==
  /\ HasIdle
  /\ LET n == NextId
     IN  /\ files' = files \cup {n}
         /\ tasks' = [tasks EXCEPT ![n] =
              IF IsPdf(mimeType) \/ IsPlainText(mimeType)
                THEN [pc |-> "extract", userId |-> userId,
                      category |-> category, mimeType |-> mimeType,
                      error |-> NoError]
                ELSE ThrowingTask("cleanup", mimeType,
                                  UnsupportedError(mimeType))]
  /\ documentIndex' = <<>>
  /\ UNCHANGED <<documents, deleting>>
  /\ UNCHANGED <<deleteResults, pureVars>>

\* processDocument up to its first await.  The file is on disk.  A type the
\* switch does not know throws at once, and the catch block starts the
\* removal of the file; otherwise the extraction is awaited.
ProcessDocumentBegin(userId, category, mimeType) ==
  /\ HasIdle
  /\ LET n == NextId
     IN  /\ files' = files \cup {n}
         /\ tasks' = [tasks EXCEPT ![n] =
              IF IsPdf(mimeType) \/ IsPlainText(mimeType)
                THEN [pc |-> "extract", userId |-> userId,
                      category |-> category, mimeType |-> mimeType,
                      error |-> NoError]
                ELSE ThrowingTask("cleanup", mimeType,
                                  UnsupportedError(mimeType))]
  /\ UNCHANGED <<documents, documentIndex, deleting>>
  /\ UNCHANGED <<deleteResults, pureVars>>

\* the document object processDocument stores.  createdAt is the time of the
\* call: the calls are taken to start at distinct milliseconds, in the order
\* of their ids.
newDocument(n, task, extractedText) ==
  [id            |-> n,
   userId        |-> task.userId,
   category      |-> task.category,
   filePath      |-> n,
   createdAt     |-> n,
   extractedText |-> extractedText,
   chunks        |-> chunkText(extractedText, ChunkSize, DefaultOverlap),
   wordCount     |-> Len(split(extractedText)),
   status        |-> "processed"]

\* documents.get(userId) || new Map(); userDocs.set(...); documents.set(...)
saveDocument(docs, document) ==
  [docs EXCEPT ![document.userId] = setDoc(@, document)]

\* The extraction delivers the text: chunk, save, index and return, with no
\* await in between; the route answers 201.
ExtractDone(n, extractedText) ==
  /\ tasks[n].pc = "extract"
  /\ LET document == newDocument(n, tasks[n], extractedText)
     IN  /\ documents' = saveDocument(documents, document)
         /\ documentIndex' = indexDocument(documentIndex, document)
  /\ tasks' = [tasks EXCEPT ![n] = DoneTask]
  /\ UNCHANGED <<files, deleting>>
  /\ UNCHANGED <<deleteResults, pureVars>>

\* pdf-parse rejects the file: extractPdfText throws, the catch block of
\* processDocument starts the removal of the file.  (fs.readFile of a
\* stored upload does not fail: the file exists until the call is over.)
ExtractFail(n) ==
  /\ tasks[n].pc = "extract"
  /\ IsPdf(tasks[n].mimeType)
  /\ tasks' = [tasks EXCEPT ![n] =
                 ThrowingTask("cleanup", tasks[n].mimeType, ExtractionError)]
  /\ UNCHANGED <<documents, documentIndex, files, deleting>>
  /\ UNCHANGED <<deleteResults, pureVars>>

\* fs.unlink(path) resolves: the file is gone afterwards
unlink(fs, path) == fs \ {path}

\* Faulty variant of Cleanup: the catch block rethrows without removing the
\* file.
CleanupKeepsFile(n) ==
  /\ tasks[n].pc = "cleanup"
  /\ tasks' = [tasks EXCEPT ![n] =
                 IF fileFilter(tasks[n].mimeType)
                   THEN [tasks[n] EXCEPT !.pc = "routeCleanup"]
                   ELSE FailedTask]
  /\ UNCHANGED <<documents, documentIndex, files, deleting>>
  /\ UNCHANGED <<deleteResults, pureVars>>

\* The unlink of processDocument's catch block is over and the error is
\* rethrown: to the route's catch block, which unlinks once more, or to
\* another caller.
Cleanup(n) ==
  /\ tasks[n].pc = "cleanup"
  /\ files' = unlink(files, n)
  /\ tasks' = [tasks EXCEPT ![n] =
                 IF fileFilter(tasks[n].mimeType)
                   THEN [tasks[n] EXCEPT !.pc = "routeCleanup"]
                   ELSE FailedTask]
  /\ UNCHANGED <<documents, documentIndex, deleting>>
  /\ UNCHANGED <<deleteResults, pureVars>>

\* the route's own unlink is over; it answers 500 with the error's message
RouteCleanup(n) ==
  /\ tasks[n].pc = "routeCleanup"
  /\ files' = unlink(files, n)
  /\ tasks' = [tasks EXCEPT ![n] = FailedTask]
  /\ UNCHANGED <<documents, documentIndex, deleting>>
  /\ UNCHANGED <<deleteResults, pureVars>>

(***************************************************************************)
(* Deletion: DELETE /documents/:id and deleteDocument                      *)
(***************************************************************************)
\* Faulty variant of deleteDocument: the document is looked up under every
\* owner, not under the caller's Map only.
deleteDocumentAnyOwner(docs, index, documentId, userId) ==
  IF ~\E v \in Users : hasDoc(docs[v], documentId)
    THEN [success |-> FALSE, documents |-> docs, documentIndex |-> index,
          filePath |-> 0]
    ELSE LET owner == CHOOSE v \in Users : hasDoc(docs[v], documentId)
         IN  [success |-> TRUE,
              documents |-> [docs EXCEPT ![owner] = deleteDoc(@, documentId)],
              documentIndex |-> removeFromIndex(index, documentId),
              filePath |-> getDoc(docs[owner], documentId).filePath]

\* Faulty variant of deleteDocument: the index is not cleaned before the
\* await.
deleteDocumentKeepsIndex(docs, index, documentId, userId) ==
  IF ~hasDoc(docs[userId], documentId)
    THEN [success |-> FALSE, documents |-> docs, documentIndex |-> index,
          filePath |-> 0]
    ELSE [success |-> TRUE,
          documents |-> [docs EXCEPT ![userId] = deleteDoc(@, documentId)],
          documentIndex |-> index,
          filePath |-> getDoc(docs[userId], documentId).filePath]

\* Faulty variant of deleteDocument: the document is looked up before the
\* await, and removed from the store and the index after it.
deleteDocumentRemovesLater(docs, index, documentId, userId) ==
  IF ~hasDoc(docs[userId], documentId)
    THEN [success |-> FALSE, documents |-> docs, documentIndex |-> index,
          filePath |-> 0]
    ELSE [success |-> TRUE,
          documents |-> docs,
          documentIndex |-> index,
          filePath |-> getDoc(docs[userId], documentId).filePath]

\* deleteDocument up to its await: the lookup under the caller's own Map,
\* then the removal from the store and from the index.  success = FALSE is
\* { success: false, error: 'Document not found' }, the route's 404.
deleteDocument(docs, index, documentId, userId) ==
  IF ~hasDoc(docs[userId], documentId)
    THEN [success |-> FALSE, documents |-> docs, documentIndex |-> index,
          filePath |-> 0]
    ELSE [success |-> TRUE,
          documents |-> [docs EXCEPT ![userId] = deleteDoc(@, documentId)],
          documentIndex |-> removeFromIndex(index, documentId),
          filePath |-> getDoc(docs[userId], documentId).filePath]

DeleteBegin(documentId, userId) ==
  LET r == deleteDocument(documents, documentIndex, documentId, userId)
  IN  /\ documents' = r.documents
      /\ documentIndex' = r.documentIndex
      /\ deleting' = IF r.success
                       THEN deleting \cup
                              {[documentId |-> documentId,
                                userId |-> userId, filePath |-> r.filePath]}
                       ELSE deleting
      /\ UNCHANGED <<files, tasks>>
      /\ UNCHANGED <<deleteResults, pureVars>>

\* the value deleteDocument returns after the try/catch around the unlink
\* (deletedAt left out)
deleteResult(d) == [success |-> TRUE, documentId |-> d.documentId]

\* the unlink of the backing file is over: { success: true }, the route
\* answers 200
DeleteFinish(d) ==
  /\ d \in deleting
  /\ files' = unlink(files, d.filePath)
  /\ deleting' = deleting \ {d}
  /\ deleteResults' = deleteResults \cup {deleteResult(d)}
  /\ UNCHANGED <<documents, documentIndex, tasks>>
  /\ UNCHANGED pureVars

\* Faulty variant of DeleteFinishUnlinkFails: the error of the unlink is
\* not caught, the call throws and returns nothing (the route answers 500).
DeleteFinishUnlinkThrows(d) ==
  /\ d \in deleting
  /\ deleting' = deleting \ {d}
  /\ UNCHANGED <<documents, documentIndex, files, tasks, deleteResults>>
  /\ UNCHANGED pureVars

\* fs.unlink rejects (EACCES, EBUSY, an I/O error) and the file stays: the
\* inner catch logs the error and the call returns { success: true } all
\* the same
DeleteFinishUnlinkFails(d) ==
  /\ d \in deleting
  /\ deleting' = deleting \ {d}
  /\ deleteResults' = deleteResults \cup {deleteResult(d)}
  /\ UNCHANGED <<documents, documentIndex, files, tasks>>
  /\ UNCHANGED pureVars

(***************************************************************************)
(* Read-only handlers: GET /search and the chat command "@kb search"       *)
(***************************************************************************)
\* Faulty variant of searchKnowledgeBaseState: the scored chunks are kept in
\* the stored document (doc.chunks = relevantChunks).
searchKeepsRelevantChunks(docs, index, query, userId, limit, category) ==
  LET results == searchKnowledgeBase(docs, index, query, userId, limit,
                                     category)
      hit(doc) == { i \in DOMAIN results : results[i].document.id = doc.id }
      scored(doc) ==
        IF hit(doc) = {} THEN doc
        ELSE [doc EXCEPT !.chunks =
                results[CHOOSE i \in hit(doc) : TRUE].relevantChunks]
  IN  [documents |->
         [docs EXCEPT ![userId] = [k \in DOMAIN @ |-> scored(@[k])]],
       documentIndex |-> index]

\* The two Maps when a call of searchKnowledgeBase is over.  The call only
\* reads them (documents.get, documentIndex.get, userDocs.get) and builds
\* its scores, its sorted arrays and its scored chunks in objects of its
\* own (new Map, Array.from, chunks.map with a spread copy); a query that
\* is undefined makes it throw in extractSearchTerms, before any of that.
searchKnowledgeBaseState(docs, index, query, userId, limit, category) ==
  [documents |-> docs, documentIndex |-> index]

\* getDocuments' default page and limit
DefaultPage == 1

DefaultListLimit == 20

\* the comparator of docArray.sort: positive when a goes after b
compareDocs(a, b, sortBy, sortOrder) ==
  IF sortOrder = "desc"
    THEN (IF b[sortBy] > a[sortBy] THEN 1 ELSE -1)
    ELSE (IF a[sortBy] > b[sortBy] THEN 1 ELSE -1)

\* docArray.sort(comparator) for documents with distinct sort keys
RECURSIVE insertDoc(_, _, _, _)
insertDoc(sorted, e, sortBy, sortOrder) ==
  IF sorted = <<>> THEN <<e>>
  ELSE IF compareDocs(e, Head(sorted), sortBy, sortOrder) < 0
    THEN <<e>> \o sorted
    ELSE <<Head(sorted)>> \o insertDoc(Tail(sorted), e, sortBy, sortOrder)

RECURSIVE sortDocs(_, _, _, _)
sortDocs(sorted, rest, sortBy, sortOrder) ==
  IF rest = <<>> THEN sorted
  ELSE sortDocs(insertDoc(sorted, Head(rest), sortBy, sortOrder), Tail(rest),
                sortBy, sortOrder)

\* the list view of a document
cleanDoc(doc) ==
  [id |-> doc.id, category |-> doc.category, wordCount |-> doc.wordCount,
   status |-> doc.status, createdAt |-> doc.createdAt]

\* Faulty variant of getDocuments: pages are counted from 0, the slice
\* starts at page * limit.
getDocumentsPageZero(docs, userId, page, limit, category, sortBy, sortOrder) ==
  LET userDocs == docs[userId]
      docArray == IF category # NoCategory
                    THEN SelectSeq(userDocs,
                                   LAMBDA doc : doc.category = category)
                    ELSE userDocs
      sortedDocs == sortDocs(<<>>, docArray, sortBy, sortOrder)
      startIndex == page * limit
      paginatedDocs == IF startIndex >= Len(sortedDocs) THEN <<>>
                       ELSE slice(sortedDocs, startIndex, startIndex + limit)
  IN  [i \in DOMAIN paginatedDocs |-> cleanDoc(paginatedDocs[i])]

getDocuments(docs, userId, page, limit, category, sortBy, sortOrder) ==
  LET userDocs == docs[userId]
      docArray == IF category # NoCategory
                    THEN SelectSeq(userDocs,
                                   LAMBDA doc : doc.category = category)
                    ELSE userDocs
      sortedDocs == sortDocs(<<>>, docArray, sortBy, sortOrder)
      startIndex == (page - 1) * limit
      paginatedDocs == IF startIndex >= Len(sortedDocs) THEN <<>>
                       ELSE slice(sortedDocs, startIndex, startIndex + limit)
  IN  [i \in DOMAIN paginatedDocs |-> cleanDoc(paginatedDocs[i])]

\* GET /documents/:id: a mock, the store is not read
getDocumentRoute(docs, documentId, userId) ==
  [status |-> 200,
   document |-> [id |-> documentId, category |-> "general",
                 status |-> "processed"]]

\* PUT /documents/:id: a mock, the store is neither read nor written
updateDocumentRoute(docs, index, documentId, userId, category) ==
  [status |-> 200,
   document |-> [id |-> documentId,
                 category |-> IF category = NoCategory THEN "general"
                              ELSE category],
   documents |-> docs,
   documentIndex |-> index]

\* req.query.q when the parameter is absent (undefined)
Missing == <<"undefined">>

\* GET /search: `if (!query)` answers 400 before searchKnowledgeBase runs
searchRoute(docs, index, query, userId, limit, category) ==
  IF query = Missing \/ query = <<>>
    THEN [status |-> 400, error |-> "Search query is required",
          results |-> <<>>]
    ELSE [status |-> 200, error |-> "",
          results |-> searchKnowledgeBase(docs, index, query, userId, limit,
                                          category)]

\* handleKnowledgeCommand: query = args.slice(1).join(' ') is passed on
\* unchecked, with the default limit and no category
handleKnowledgeCommand(docs, index, query, userId) ==
  [success |-> TRUE, type |-> "knowledge_search",
   results |-> searchKnowledgeBase(docs, index, query, userId, DefaultLimit,
                                   NoCategory)]

(***************************************************************************)
(* Specification                                                           *)
(***************************************************************************)
Next ==
  \/ \E userId \in Users, category \in Categories, mimeType \in MimeTypes :
       ProcessDocumentBegin(userId, category, mimeType)
  \/ \E n \in DocIds, extractedText \in Texts : ExtractDone(n, extractedText)
  \/ \E n \in DocIds : ExtractFail(n)
  \/ \E n \in DocIds : Cleanup(n)
  \/ \E n \in DocIds : RouteCleanup(n)
  \/ \E documentId \in DocIds, userId \in Users :
       DeleteBegin(documentId, userId)
  \/ \E d \in deleting : DeleteFinish(d)
  \/ \E d \in deleting : DeleteFinishUnlinkFails(d)

Spec == Init /\ [][Next]_vars

\* the same service, for the properties of the search results
SearchSpec == Init /\ [][Next]_vars

\* the same service, for the properties of the limit and the category filter
FilterSpec == Init /\ [][Next]_vars

\* the same service, for the properties of the document listing
ListingSpec == Init /\ [][Next]_vars

(***************************************************************************)
(* chunkText on its own: one call on any text and any window              *)
(***************************************************************************)
\* the longest text, in words, and the widest window
MaxWords == 4

MaxWindow == 3

ChunkWords == { <<"a">>, <<"b">> }

Margins == { <<>>, <<" ">> }

Separators == { <<" ">>, <<"\n", " ">> }

RECURSIVE joinWith(_, _)
joinWith(words, sep) ==
  IF words = <<>> THEN <<>>
  ELSE IF Len(words) = 1 THEN words[1]
  ELSE words[1] \o sep \o joinWith(Tail(words), sep)

\* texts of up to MaxWords words, with and without white space at the ends
ChunkTexts ==
  { lead \o joinWith(ws, sep) \o trail :
      ws \in UNION { [1..k -> ChunkWords] : k \in 0..MaxWords },
      sep \in Separators, lead \in Margins, trail \in Margins }

\* chunkText(text, chunkSize, overlap) with chunkSize > overlap >= 0
ChunkCalls ==
  { call \in [text : ChunkTexts, chunkSize : 1..MaxWindow,
              overlap : 0..(MaxWindow - 1)] :
      call.overlap < call.chunkSize }

ChunkInit ==
  /\ documents = [u \in Users |-> <<>>]
  /\ documentIndex = <<>>
  /\ files = {}
  /\ tasks = [n \in DocIds |-> IdleTask]
  /\ deleting = {}
  /\ deleteResults = {}
  /\ chunkCall \in ChunkCalls
  /\ chunkResult = NotReturned
  /\ chunkIndex = 0
  /\ NoTokenizerCall
  /\ NoRelevanceCall

\* the call returns its chunks
ChunkText ==
  /\ chunkCall # NoCall
  /\ ~chunkResult.returned
  /\ chunkResult' =
       [returned |-> TRUE,
        chunks |-> chunkText(chunkCall.text, chunkCall.chunkSize,
                             chunkCall.overlap)]
  /\ UNCHANGED <<documents, documentIndex, files, tasks, deleting,
                 deleteResults, chunkCall, chunkIndex>>
  /\ UNCHANGED <<tokenizerVars, relevanceVars>>

ChunkNext == ChunkText

ChunkSpec == ChunkInit /\ [][ChunkNext]_vars

(***************************************************************************)
(* extractSearchTerms on its own: one call on any text                     *)
(***************************************************************************)
\* the longest text, in pieces
MaxPieces == 2

\* pieces:  "The"  "Foo"  "foo"  "a_b"  "c,def"  "ok"  "x12"
TermPieces ==
  { <<"T","h","e">>, <<"F","o","o">>, <<"f","o","o">>, <<"a","_","b">>,
    <<"c",",","d","e","f">>, <<"o","k">>, <<"x","1","2">> }

\* texts of up to MaxPieces pieces
TermTexts ==
  { joinWith(ws, <<" ">>) :
      ws \in UNION { [1..k -> TermPieces] : k \in 0..MaxPieces } }

TermsInit ==
  /\ NoRequests
  /\ NoChunkerCall
  /\ termsCall \in { [called |-> TRUE, text |-> text] : text \in TermTexts }
  /\ termsResult = NoTerms
  /\ NoRelevanceCall

\* the call returns its terms
ExtractSearchTerms ==
  /\ termsCall.called
  /\ ~termsResult.returned
  /\ termsResult' =
       [returned |-> TRUE, terms |-> extractSearchTerms(termsCall.text)]
  /\ UNCHANGED <<documents, documentIndex, files, tasks, deleting,
                 deleteResults, termsCall>>
  /\ UNCHANGED <<chunkerVars, relevanceVars>>

TermsNext == ExtractSearchTerms

TermsSpec == TermsInit /\ [][TermsNext]_vars

(***************************************************************************)
(* findRelevantChunks on its own: one call on any document and any query   *)
(***************************************************************************)
\* the largest number of chunks of a document
MaxChunkCount == 4

\* chunk texts:  "Apple pie"   "pie"   "apple apple"   "ok"
ChunkBodies ==
  { <<"A","p","p","l","e"," ","p","i","e">>, <<"p","i","e">>,
    <<"a","p","p","l","e"," ","a","p","p","l","e">>, <<"o","k">> }

\* doc.chunks: chunk i - 1 of the document, with any of the texts
ChunkLists ==
  { [i \in DOMAIN bodies |->
       [text |-> bodies[i], startIndex |-> i - 1,
        wordCount |-> Len(split(bodies[i]))]] :
      bodies \in UNION { [1..k -> ChunkBodies] : k \in 0..MaxChunkCount } }

\* searchTerms:  []   ['apple']   ['pie', 'apple']
TermLists ==
  { <<>>, << <<"a","p","p","l","e">> >>,
    << <<"p","i","e">>, <<"a","p","p","l","e">> >> }

RelevantInit ==
  /\ NoRequests
  /\ NoChunkerCall
  /\ NoTokenizerCall
  /\ relevantCall \in [called : {TRUE}, chunks : ChunkLists,
                       searchTerms : TermLists]
  /\ relevantResult = NoRelevant

\* the call searchKnowledgeBase makes for a result, findRelevantChunks(
\* doc.chunks, searchTerms, 3), returns
FindRelevantChunks ==
  /\ relevantCall.called
  /\ ~relevantResult.returned
  /\ relevantResult' =
       [returned |-> TRUE,
        chunks |-> findRelevantChunks(relevantCall.chunks,
                                      relevantCall.searchTerms, MaxChunks)]
  /\ UNCHANGED <<documents, documentIndex, files, tasks, deleting,
                 deleteResults, relevantCall>>
  /\ UNCHANGED <<chunkerVars, tokenizerVars>>

RelevantNext == FindRelevantChunks

RelevantSpec == RelevantInit /\ [][RelevantNext]_vars

(***************************************************************************)
(* chunkText step by step: the iterations of its loop                      *)
(***************************************************************************)
\* Faulty variant of advance: the index advances by the overlap.
advanceByOverlap(i, chunkSize, overlap) == i + overlap

\* i += chunkSize - overlap
advance(i, chunkSize, overlap) == i + (chunkSize - overlap)

\* the body of the loop: the window at i is pushed unless it is blank
pushChunk(words, i, chunkSize, chunks) ==
  LET chunk == join(slice(words, i, i + chunkSize))
  IN  IF TrimIsEmpty(chunk) THEN chunks
      ELSE Append(chunks,
             [text       |-> chunk,
              startIndex |-> i,
              wordCount  |-> Min(chunkSize, Len(words) - i)])

ChunkLoopInit ==
  /\ NoRequests
  /\ chunkCall \in ChunkCalls
  /\ chunkResult = NotReturned
  /\ chunkIndex = 0
  /\ NoTokenizerCall
  /\ NoRelevanceCall

\* one iteration: i < words.length, the body, then the increment
ChunkLoopStep ==
  /\ ~chunkResult.returned
  /\ chunkIndex < Len(split(chunkCall.text))
  /\ chunkResult' =
       [returned |-> FALSE,
        chunks |-> pushChunk(split(chunkCall.text), chunkIndex,
                             chunkCall.chunkSize, chunkResult.chunks)]
  /\ chunkIndex' = advance(chunkIndex, chunkCall.chunkSize, chunkCall.overlap)
  /\ UNCHANGED <<documents, documentIndex, files, tasks, deleting,
                 deleteResults, chunkCall>>
  /\ UNCHANGED <<tokenizerVars, relevanceVars>>

\* the loop condition fails: return chunks
ChunkLoopReturn ==
  /\ ~chunkResult.returned
  /\ ~(chunkIndex < Len(split(chunkCall.text)))
  /\ chunkResult' = [chunkResult EXCEPT !.returned = TRUE]
  /\ UNCHANGED <<documents, documentIndex, files, tasks, deleting,
                 deleteResults, chunkCall, chunkIndex>>
  /\ UNCHANGED <<tokenizerVars, relevanceVars>>

ChunkLoopNext == ChunkLoopStep \/ ChunkLoopReturn

\* the call runs to its end without being suspended: chunkText is
\* synchronous, every iteration that can run does run
ChunkLoopSpec ==
  ChunkLoopInit /\ [][ChunkLoopNext]_vars /\ WF_vars(ChunkLoopNext)

\* the pieces of text.split(/\s+/) and the chunks of the call
callWords == split(chunkCall.text)

callChunks == chunkResult.chunks

\* the 0-based word index k lies in the range of the chunk
InChunk(k, chunk) ==
  chunk.startIndex <= k /\ k < chunk.startIndex + chunk.wordCount

(***************************************************************************)
(* Vocabulary of the properties                                            *)
(***************************************************************************)
Limits == {1, DefaultLimit}

CategoryOptions == Categories \cup {NoCategory}

Stored(n) == \E u \in Users : hasDoc(documents[u], n)

StoredDocs ==
  UNION { { documents[u][i] : i \in DOMAIN documents[u] } : u \in Users }

countRefs(entry, n) ==
  Cardinality({ i \in DOMAIN entry : entry[i].documentId = n })

occurrences(terms, term) ==
  Cardinality({ i \in DOMAIN terms : terms[i] = term })

NoRefs(index, n) == \A term \in DOMAIN index : countRefs(index[term], n) = 0

Terms(doc) == extractSearchTerms(doc.extractedText)

(***************************************************************************)
(* C1  Owner isolation                                                     *)
(***************************************************************************)
\* C1: in every reachable state, for every query, limit and category, every
\* result of searchKnowledgeBase(query, A) is a document stored under A,
\* owned by A and stored under no other user.
OwnerIsolation ==
  \A query \in Queries, userId \in Users, limit \in Limits,
     category \in CategoryOptions :
    LET results == searchKnowledgeBase(documents, documentIndex, query,
                                       userId, limit, category)
    IN  \A i \in DOMAIN results :
          /\ hasDoc(documents[userId], results[i].document.id)
          /\ getDoc(documents[userId], results[i].document.id).userId = userId
          /\ \A v \in Users \ {userId} :
               ~hasDoc(documents[v], results[i].document.id)

\* both users hold a document with the term "pie", and u1's search for it
\* returns u1's document
OwnerIsolationWitness ==
  /\ \E d \in StoredDocs : d.userId = "u1" /\ <<"p","i","e">> \in Range(Terms(d))
  /\ \E d \in StoredDocs : d.userId = "u2" /\ <<"p","i","e">> \in Range(Terms(d))
  /\ Len(searchKnowledgeBase(documents, documentIndex,
                             <<"P","i","e"," ","p","i","e">>, "u1",
                             DefaultLimit, NoCategory)) = 1

(***************************************************************************)
(* C2  Idempotent indexing                                                 *)
(***************************************************************************)
\* C2: indexing a stored (hence already indexed) document once more leaves
\* exactly one reference to it in the entry of each of its terms.
IdempotentIndexing ==
  \A d \in StoredDocs :
    LET again == indexDocument(documentIndex, d)
    IN  \A term \in Range(Terms(d)) : countRefs(again[term], d.id) = 1

(***************************************************************************)
(* C3  Document score                                                      *)
(***************************************************************************)
\* C3: the score of every search result is the number of distinct query
\* terms that are terms of the document.
DocumentScore ==
  \A query \in Queries, userId \in Users, limit \in Limits,
     category \in CategoryOptions :
    LET results == searchKnowledgeBase(documents, documentIndex, query,
                                       userId, limit, category)
    IN  \A i \in DOMAIN results :
          results[i].score =
            Cardinality(Range(extractSearchTerms(query)) \cap
                        Range(Terms(getDoc(documents[userId],
                                           results[i].document.id))))

(***************************************************************************)
(* C4  Index completeness after ingestion                                  *)
(***************************************************************************)
\* C4: every term of the extracted text of every stored document (ingested
\* and not deleted) has an index entry holding a reference to the document
\* with the document's owner.
IndexCompleteness ==
  \A u \in Users : \A k \in DOMAIN documents[u] :
    LET d == documents[u][k]
    IN  \A term \in Range(Terms(d)) :
          /\ term \in DOMAIN documentIndex
          /\ \E i \in DOMAIN documentIndex[term] :
               /\ documentIndex[term][i].documentId = d.id
               /\ documentIndex[term][i].userId = u

\* a document with terms is stored while the deletion of another is under
\* way
IndexCompletenessWitness ==
  /\ \E d \in StoredDocs : Terms(d) # <<>>
  /\ deleting # {}

(***************************************************************************)
(* C5  No stale index references                                           *)
(***************************************************************************)
\* C5: a document that was ingested and then deleted (its ingestion is done
\* and it is in no store) is referenced by no index entry.
NoStaleReferences ==
  \A n \in DocIds :
    (tasks[n].pc = "done" /\ ~Stored(n)) => NoRefs(documentIndex, n)

\* a document has been deleted while another, with terms, stays indexed
NoStaleReferencesWitness ==
  /\ \E n \in DocIds : tasks[n].pc = "done" /\ ~Stored(n)
  /\ \E d \in StoredDocs : Terms(d) # <<>>

NotExtractable(mimeType) ==
  mimeType \notin {"", "application/pdf", "text/plain", "text/markdown"}

DeleteNotFound ==
  \A documentId \in DocIds, userId \in Users :
    (~\E i \in DOMAIN documents[userId] :
        documents[userId][i].id = documentId) =>
      LET r == deleteDocument(documents, documentIndex, documentId, userId)
      IN  /\ r.success = FALSE
          /\ r.documents = documents
          /\ r.documentIndex = documentIndex

\* u1 holds a document with terms; u2 asks for its deletion and gets
\* not-found, and u1 still finds it
DeleteNotFoundWitness ==
  \E d \in StoredDocs :
    /\ d.userId = "u1" /\ Terms(d) # <<>>
    /\ ~deleteDocument(documents, documentIndex, d.id, "u2").success
    /\ \E i \in DOMAIN searchKnowledgeBase(documents, documentIndex,
                                           d.extractedText, "u1",
                                           DefaultLimit, NoCategory) :
         searchKnowledgeBase(documents, documentIndex, d.extractedText,
                             "u1", DefaultLimit, NoCategory)[i].document.id
           = d.id

(***************************************************************************)
(* C9  Empty query                                                         *)
(***************************************************************************)
\* C9: a search with an empty or missing query fails, by the route and by
\* the chat command alike, instead of returning an empty result list.
EmptyQueryIsInvalid ==
  \A userId \in Users :
    /\ \A query \in {<<>>, Missing} :
         searchRoute(documents, documentIndex, query, userId, DefaultLimit,
                     NoCategory).status = 400
    /\ ~handleKnowledgeCommand(documents, documentIndex, <<>>, userId).success

(***************************************************************************)
(* C10 Atomic visibility                                                   *)
(***************************************************************************)
FullyIndexed(d) ==
  \A term \in DOMAIN documentIndex \cup Range(Terms(d)) :
    countRefs(entryOf(documentIndex, term), d.id) = occurrences(Terms(d), term)

\* C10: in every state a reader can observe (the states between the steps
\* of the concurrent requests), each document is either wholly there, in
\* one owner's Map with its chunks and with every reference indexDocument
\* gives it, or wholly absent from the store and from the index.
AtomicVisibility ==
  \A n \in DocIds :
    IF Stored(n)
      THEN \E u \in Users :
             /\ hasDoc(documents[u], n)
             /\ \A v \in Users \ {u} : ~hasDoc(documents[v], n)
             /\ getDoc(documents[u], n).chunks =
                  chunkText(getDoc(documents[u], n).extractedText,
                            ChunkSize, DefaultOverlap)
             /\ FullyIndexed(getDoc(documents[u], n))
      ELSE NoRefs(documentIndex, n)

\* an ingestion is suspended in its extraction while a deletion waits for
\* the removal of its file
AtomicVisibilityWitness ==
  /\ \E n \in DocIds : tasks[n].pc = "extract"
  /\ deleting # {}

(***************************************************************************)
(* C11 Search while an extraction is suspended                             *)
(***************************************************************************)
\* C11: a step by which the ingestion of X enters its extraction, or leaves
\* it by failing, changes the result of no search (every query, owner,
\* limit and category); and in every state where X is suspended in its
\* extraction the searches return documents other than X only.  A search
\* has no await, so it runs to completion in the state it is called in.
SearchDuringExtraction ==
  [][\A n \in DocIds :
       (tasks'[n] # tasks[n] /\ tasks'[n].pc \in {"extract", "cleanup"}) =>
         /\ ~Stored(n)' /\ NoRefs(documentIndex', n)
         /\ \A query \in Queries, userId \in Users, limit \in Limits,
               category \in CategoryOptions :
              searchKnowledgeBase(documents', documentIndex', query, userId,
                                  limit, category)
                = searchKnowledgeBase(documents, documentIndex, query, userId,
                                      limit, category)
    ]_vars

\* an ingestion is suspended in its extraction while the search of another
\* document's owner returns that document
SearchDuringExtractionWitness ==
  /\ \E n \in DocIds : tasks[n].pc = "extract"
  /\ \E userId \in Users :
       Len(searchKnowledgeBase(documents, documentIndex,
                               <<"P","i","e"," ","p","i","e">>, userId,
                               DefaultLimit, NoCategory)) >= 1

(***************************************************************************)
(* C12 Search match exactness                                              *)
(***************************************************************************)
\* C12: for a query with at least one term, no category filter and a limit
\* not below the number of matching documents, the search returns exactly
\* the owner's documents that have one of the query's terms among their
\* terms, each once (so an empty sequence when none matches).
SearchMatchExactness ==
  \A query \in Queries, userId \in Users, limit \in Limits :
    LET searchTerms == extractSearchTerms(query)
        matching == { k \in DOMAIN documents[userId] :
                        Range(Terms(documents[userId][k]))
                          \cap Range(searchTerms) # {} }
        results == searchKnowledgeBase(documents, documentIndex, query,
                                       userId, limit, NoCategory)
    IN  (searchTerms # <<>> /\ Cardinality(matching) <= limit) =>
          /\ { results[i].document.id : i \in DOMAIN results }
               = { documents[userId][k].id : k \in matching }
          /\ Len(results) = Cardinality(matching)

\* u1 holds a document with the term "apple" and one without it, and u1's
\* search for "apple" returns one document
SearchMatchExactnessWitness ==
  /\ \E d \in StoredDocs :
       d.userId = "u1" /\ <<"a","p","p","l","e">> \in Range(Terms(d))
  /\ \E d \in StoredDocs :
       d.userId = "u1" /\ <<"a","p","p","l","e">> \notin Range(Terms(d))
  /\ Len(searchKnowledgeBase(documents, documentIndex,
                             <<"a","p","p","l","e">>, "u1", DefaultLimit,
                             NoCategory)) = 1

MetadataUpdatePersists ==
  \A userId \in Users : \A k \in DOMAIN documents[userId] :
    \A category \in Categories :
      LET d == documents[userId][k]
          r == updateDocumentRoute(documents, documentIndex, d.id, userId,
                                   category)
          listed == getDocuments(r.documents, userId, DefaultPage,
                                 DefaultListLimit, NoCategory, "createdAt",
                                 "desc")
          found == searchKnowledgeBase(r.documents, r.documentIndex,
                                       d.extractedText, userId, DefaultLimit,
                                       NoCategory)
      IN  r.status = 200 =>
            /\ getDoc(r.documents[userId], d.id).category = category
            /\ \A i \in DOMAIN listed :
                 listed[i].id = d.id => listed[i].category = category
            /\ \A i \in DOMAIN found :
                 found[i].document.id = d.id =>
                   found[i].document.category = category

(***************************************************************************)
(* C15 Uniform not-found                                                   *)
(***************************************************************************)
\* C15: get and update of an id that is not in the caller's Map answer 404,
\* as delete does.
UniformNotFound ==
  \A documentId \in DocIds, userId \in Users :
    ~hasDoc(documents[userId], documentId) =>
      /\ ~deleteDocument(documents, documentIndex, documentId, userId).success
      /\ getDocumentRoute(documents, documentId, userId).status = 404
      /\ \A category \in Categories :
           updateDocumentRoute(documents, documentIndex, documentId, userId,
                               category).status = 404

(***************************************************************************)
(* C16 Visible only when processed                                         *)
(***************************************************************************)
SortOrders == {"asc", "desc"}

\* C16: every document in a user's Map has status 'processed' and a
\* finished ingestion, a document whose ingestion is in flight or has failed
\* is in no Map, and so every document returned by a search or by a listing
\* (which take their documents from the caller's Map) is a processed one.
VisibleOnlyProcessed ==
  /\ \A d \in StoredDocs : d.status = "processed" /\ tasks[d.id].pc = "done"
  /\ \A n \in DocIds : tasks[n].pc # "done" => ~Stored(n)
  /\ \A userId \in Users :
       /\ \A query \in Queries :
            LET results == searchKnowledgeBase(documents, documentIndex,
                                               query, userId, DefaultLimit,
                                               NoCategory)
            IN  \A i \in DOMAIN results :
                  /\ getDoc(documents[userId],
                            results[i].document.id).status = "processed"
                  /\ tasks[results[i].document.id].pc = "done"
       /\ \A category \in CategoryOptions, sortOrder \in SortOrders :
            LET listed == getDocuments(documents, userId, DefaultPage,
                                       DefaultListLimit, category,
                                       "createdAt", sortOrder)
            IN  \A i \in DOMAIN listed :
                  /\ listed[i].status = "processed"
                  /\ tasks[listed[i].id].pc = "done"

\* one ingestion is in flight or has failed while a listing and a search
\* return another document
VisibleOnlyProcessedWitness ==
  /\ \E n \in DocIds :
       tasks[n].pc \in {"extract", "cleanup", "routeCleanup", "failed"}
  /\ \E userId \in Users :
       /\ Len(getDocuments(documents, userId, DefaultPage, DefaultListLimit,
                           NoCategory, "createdAt", "desc")) >= 1
       /\ Len(searchKnowledgeBase(documents, documentIndex,
                                  <<"p","i","e"," ","a","p","p","l","e">>,
                                  userId, DefaultLimit, NoCategory)) >= 1

ShortTextOneChunk ==
  (/\ chunkResult.returned
   /\ ~TrimIsEmpty(chunkCall.text)
   /\ Len(callWords) < chunkCall.chunkSize) =>
    /\ Len(callChunks) = 1
    /\ callChunks[1].startIndex = 0
    /\ callChunks[1].wordCount = Len(callWords)
    /\ callChunks[1].text = join(callWords)

(***************************************************************************)
(* C20 Chunk overlap                                                       *)
(***************************************************************************)
\* C20: every two consecutive chunks share exactly `overlap` words: the
\* later chunk starts `overlap` words before the end of the earlier one and
\* holds at least that many words.
ConsecutiveChunksOverlap ==
  chunkResult.returned =>
    \A c \in 1..(Len(callChunks) - 1) :
      LET earlier == callChunks[c]
          later   == callChunks[c + 1]
      IN  /\ earlier.startIndex + earlier.wordCount - later.startIndex
               = chunkCall.overlap
          /\ later.wordCount >= chunkCall.overlap
          /\ SubSeq(callWords,
                    earlier.startIndex + earlier.wordCount
                      - chunkCall.overlap + 1,
                    earlier.startIndex + earlier.wordCount)
               = SubSeq(callWords, later.startIndex + 1,
                        later.startIndex + chunkCall.overlap)

(***************************************************************************)
(* C21 Window advance                                                      *)
(***************************************************************************)
\* the words (non-empty pieces) among the pieces from offset i up to
\* chunkSize pieces
WindowWords(i) ==
  SelectSeq(slice(callWords, i, i + chunkCall.chunkSize),
            LAMBDA piece : piece # <<>>)

\* C21: every chunk starts at a multiple of chunkSize - overlap, its text
\* is the window of up to chunkSize words that starts there, its wordCount
\* is the number of words in it and at most chunkSize; with overlap 0 every
\* word of the text lies in exactly one chunk.
WindowAdvance ==
  chunkResult.returned =>
    /\ \A c \in DOMAIN callChunks :
         LET chunk == callChunks[c]
         IN  /\ \E k \in 0..Len(callWords) :
                  chunk.startIndex
                    = k * (chunkCall.chunkSize - chunkCall.overlap)
             /\ chunk.text
                  = join(slice(callWords, chunk.startIndex,
                               chunk.startIndex + chunkCall.chunkSize))
             /\ chunk.wordCount = Len(WindowWords(chunk.startIndex))
             /\ chunk.wordCount <= chunkCall.chunkSize
    /\ chunkCall.overlap = 0 =>
         \A k \in 0..(Len(callWords) - 1) :
           callWords[k + 1] # <<>> =>
             Cardinality({ c \in DOMAIN callChunks :
                             InChunk(k, callChunks[c]) }) = 1

(***************************************************************************)
(* C22 No empty index entries                                              *)
(***************************************************************************)
\* a document that was ingested and deleted
Deleted(n) == tasks[n].pc = "done" /\ ~Stored(n)

\* C22: every term of the index maps to a non-empty set of references.
NoEmptyIndexEntries ==
  \A term \in DOMAIN documentIndex : documentIndex[term] # <<>>

\* a document was deleted and a term it was indexed under (every text of
\* Texts has it) lost its last reference: the term is no longer a key
NoEmptyIndexEntriesWitness ==
  LET pie == <<"p", "i", "e">>
  IN  /\ \A text \in Texts : pie \in Range(extractSearchTerms(text))
      /\ \E n \in DocIds : Deleted(n)
      /\ pie \notin DOMAIN documentIndex

(***************************************************************************)
(* C23 Tokenization                                                        *)
(***************************************************************************)
\* C23: every term extractSearchTerms returns is made of lower-case letters
\* and digits only, has at least 3 characters and is no stop word, and no
\* term is returned twice.
Tokenization ==
  termsResult.returned =>
    LET terms == termsResult.terms
    IN  /\ \A i \in DOMAIN terms :
             /\ Range(terms[i]) \subseteq Range(LowerLetters) \cup Digits
             /\ Len(terms[i]) >= 3
             /\ ~isStopWord(terms[i])
        /\ \A i, j \in DOMAIN terms : terms[i] = terms[j] => i = j

(***************************************************************************)
(* C24 Relevant chunks                                                     *)
(***************************************************************************)
\* the occurrences of the query's terms in chunk i of the document
occurrenceScore(i) ==
  sumMatches(toLowerCase(relevantCall.chunks[i].text),
             relevantCall.searchTerms)

\* chunk i of the document is element j of the returned list
IsChunk(i, j) ==
  /\ relevantCall.chunks[i].startIndex = relevantResult.chunks[j].startIndex
  /\ relevantCall.chunks[i].text = relevantResult.chunks[j].text

\* C24: relevantChunks holds at most 3 chunks of the document, each with its
\* occurrence score, which is positive, in non-increasing score order; no
\* chunk left out scores higher than a chunk included; a document without
\* any occurrence gets the empty list.
RelevantChunks ==
  relevantResult.returned =>
    LET chunks   == relevantCall.chunks
        relevant == relevantResult.chunks
        included == { i \in DOMAIN chunks :
                        \E j \in DOMAIN relevant : IsChunk(i, j) }
    IN  /\ Len(relevant) <= 3
        /\ Cardinality(included) = Len(relevant)
        /\ \A j \in DOMAIN relevant :
             /\ \E i \in DOMAIN chunks :
                  IsChunk(i, j) /\ relevant[j].score = occurrenceScore(i)
             /\ relevant[j].score > 0
             /\ j > 1 => relevant[j - 1].score >= relevant[j].score
        /\ \A i \in DOMAIN chunks \ included :
             \A j \in DOMAIN relevant : occurrenceScore(i) <= relevant[j].score
        /\ (\A i \in DOMAIN chunks : occurrenceScore(i) = 0) =>
             relevant = <<>>

\* three chunks of different scores are returned and a fourth, which has
\* occurrences too, is left out
RelevantChunksWitness ==
  /\ relevantResult.returned
  /\ Len(relevantResult.chunks) = 3
  /\ relevantResult.chunks[1].score > relevantResult.chunks[3].score
  /\ \E i \in DOMAIN relevantCall.chunks :
       /\ occurrenceScore(i) > 0
       /\ \A j \in DOMAIN relevantResult.chunks : ~IsChunk(i, j)

(***************************************************************************)
(* C25 Limit before category                                               *)
(***************************************************************************)
\* all the candidates of a search, in score order
Candidates(query, userId) ==
  sortByScore(<<>>, scoreTerms(<<>>, extractSearchTerms(query),
                               documentIndex, userId))

\* C25: a search with a category returns at most `limit` results, all of
\* that category: the documents of that category among the first `limit`
\* candidates in score order, and no candidate ranked below position
\* `limit`.
LimitBeforeCategory ==
  \A query \in Queries, userId \in Users, category \in Categories,
     limit \in Limits :
    LET results == searchKnowledgeBase(documents, documentIndex, query,
                                       userId, limit, category)
        ranked  == Candidates(query, userId)
        ids     == { results[i].document.id : i \in DOMAIN results }
    IN  /\ Len(results) <= limit
        /\ \A i \in DOMAIN results : results[i].document.category = category
        /\ \A k \in DOMAIN ranked :
             ranked[k].documentId \in ids <=>
               /\ k <= limit
               /\ getDoc(documents[userId], ranked[k].documentId).category
                    = category

\* u1's search for "pie apple" with limit 1 and a category returns nothing:
\* the top candidate has the other category, and the second candidate, of
\* the requested category, is cut off by the limit
LimitBeforeCategoryWitness ==
  \E category \in Categories :
    LET query   == <<"p","i","e"," ","a","p","p","l","e">>
        ranked  == Candidates(query, "u1")
        results == searchKnowledgeBase(documents, documentIndex, query, "u1",
                                       1, category)
    IN  /\ Len(ranked) = 2
        /\ ranked[1].score > ranked[2].score
        /\ getDoc(documents["u1"], ranked[1].documentId).category # category
        /\ getDoc(documents["u1"], ranked[2].documentId).category = category
        /\ results = <<>>

(***************************************************************************)
(* C26 Pagination                                                          *)
(***************************************************************************)
\* page sizes, and enough pages to hold every document at page size 1
PageLimits == {1, 2}

Pages == 1..(MaxDocs + 1)

\* the documents of the owner with the category (all of them without one)
Owned(userId, category) ==
  { doc \in StoredDocs :
      /\ doc.userId = userId
      /\ category # NoCategory => doc.category = category }

\* the owner's category-filtered list, sorted by creation time
Listed(userId, category, sortOrder) ==
  LET userDocs == documents[userId]
      filtered == SelectSeq(userDocs, LAMBDA doc :
                    category # NoCategory => doc.category = category)
      sorted   == sortDocs(<<>>, filtered, "createdAt", sortOrder)
  IN  [i \in DOMAIN sorted |-> cleanDoc(sorted[i])]

\* C26: page p of size n is the elements (p-1)*n .. p*n-1 of the owner's
\* category-filtered sorted list; the pages are pairwise disjoint, hold
\* every document of the owner (of that category) and nothing else.
Pagination ==
  \A userId \in Users, category \in CategoryOptions,
     sortOrder \in SortOrders, limit \in PageLimits :
    LET full == Listed(userId, category, sortOrder)
        page == [p \in Pages |->
                   getDocuments(documents, userId, p, limit, category,
                                "createdAt", sortOrder)]
        ids  == [p \in Pages |-> { page[p][i].id : i \in DOMAIN page[p] }]
    IN  /\ \A p \in Pages :
             /\ page[p] = SubSeq(full, (p - 1) * limit + 1,
                                 Min(p * limit, Len(full)))
             /\ Cardinality(ids[p]) = Len(page[p])
        /\ \A p, q \in Pages : p # q => ids[p] \cap ids[q] = {}
        /\ UNION { ids[p] : p \in Pages }
             = { doc.id : doc \in Owned(userId, category) }

\* u1 has two documents: u1's pages of size 1 hold one document each, the
\* newer first, and the third page is empty
PaginationWitness ==
  LET page(p) == getDocuments(documents, "u1", p, 1, NoCategory,
                              "createdAt", "desc")
  IN  /\ Len(documents["u1"]) = 2
      /\ Len(page(1)) = 1 /\ Len(page(2)) = 1
      /\ page(1)[1].createdAt > page(2)[1].createdAt
      /\ page(3) = <<>>

(***************************************************************************)
(* C27 Delete ordering and file failure                                    *)
(***************************************************************************)
\* a deleteDocument call on document n is waiting for its unlink
Unlinking(n) == \E d \in deleting : d.documentId = n

\* C27: while the removal of the backing file is under way the document is
\* already out of the store and of the index; and once it is over, whether
\* the file was removed or not, the call has returned success and the
\* document is out of the store and of the index.
DeleteOrdering ==
  /\ \A d \in deleting :
       /\ ~Stored(d.documentId)
       /\ NoRefs(documentIndex, d.documentId)
  /\ \A n \in DocIds :
       Deleted(n) /\ ~Unlinking(n) =>
         /\ [success |-> TRUE, documentId |-> n] \in deleteResults
         /\ NoRefs(documentIndex, n)

\* the unlink of a deleted document failed: its file is still there, and
\* the call has returned success
DeleteOrderingWitness ==
  \E n \in DocIds :
    /\ Deleted(n) /\ ~Unlinking(n)
    /\ n \in files
    /\ [success |-> TRUE, documentId |-> n] \in deleteResults

(***************************************************************************)
(* C28 Concurrent duplicate delete                                         *)
(***************************************************************************)
\* C28: while a deleteDocument call waits for its unlink, a second call for
\* the same document and owner returns not-found and leaves the store and
\* the index as the first call left them; success is returned once.
ConcurrentDuplicateDelete ==
  \A d \in deleting :
    LET second == deleteDocument(documents, documentIndex, d.documentId,
                                 d.userId)
    IN  /\ ~second.success
        /\ second.documents = documents
        /\ second.documentIndex = documentIndex
        /\ [success |-> TRUE, documentId |-> d.documentId]
             \notin deleteResults

\* a call waits for its unlink, the store and the index hold another
\* document, and the second call returns not-found
ConcurrentDuplicateDeleteWitness ==
  \E d \in deleting :
    /\ StoredDocs # {}
    /\ documentIndex # <<>>
    /\ ~deleteDocument(documents, documentIndex, d.documentId,
                       d.userId).success

(***************************************************************************)
(* C29 Chunker termination                                                 *)
(***************************************************************************)
\* C29: a call of chunkText with overlap < chunkSize (as in the ingestion,
\* 100 < 1000) returns; every iteration of its loop moves the index up by
\* chunkSize - overlap; what it returns is chunkText's result.
ChunkerTerminates ==
  /\ DefaultOverlap < ChunkSize
  /\ [][~chunkResult'.returned =>
          /\ chunkIndex' = chunkIndex + (chunkCall.chunkSize - chunkCall.overlap)
          /\ chunkIndex' > chunkIndex]_vars
  /\ <>(chunkResult.returned)
  /\ [](chunkResult.returned =>
          callChunks = chunkText(chunkCall.text, chunkCall.chunkSize,
                                 chunkCall.overlap))

\* a call with an overlap has returned after three iterations or more
ChunkerTerminatesWitness ==
  /\ chunkResult.returned
  /\ chunkCall.overlap > 0
  /\ chunkIndex >= 3 * (chunkCall.chunkSize - chunkCall.overlap)
  /\ chunkIndex >= Len(callWords)

(***************************************************************************)
(* C30 Cross-owner frame                                                   *)
(***************************************************************************)
\* the index references whose owner is userId, term by term, in order
refsOf(index, userId) ==
  LET own(term) == SelectSeq(index[term], LAMBDA ref : ref.userId = userId)
  IN  [term \in { t \in DOMAIN index : own(t) # <<>> } |-> own(term)]

\* the step is the end of an ingestion of userId: the document is stored
\* and indexed
IngestedBy(userId) ==
  \E n \in DocIds :
    /\ tasks[n].pc = "extract"
    /\ tasks[n].userId = userId
    /\ tasks'[n].pc = "done"

\* the step is a deleteDocument call of userId that found its document
DeletedBy(userId) == \E d \in deleting' \ deleting : d.userId = userId

\* C30: a step that stores and indexes a document of owner A, or deletes
\* one for A, leaves unchanged the stored documents of every other owner B,
\* the index references owned by B, and the result of every search and
\* every listing of B.
CrossOwnerFrame ==
  [][\A a \in Users, b \in Users :
       (a # b /\ (IngestedBy(a) \/ DeletedBy(a))) =>
         /\ documents'[b] = documents[b]
         /\ refsOf(documentIndex', b) = refsOf(documentIndex, b)
         /\ \A query \in Queries, limit \in Limits,
               category \in CategoryOptions :
              searchKnowledgeBase(documents', documentIndex', query, b,
                                  limit, category)
                = searchKnowledgeBase(documents, documentIndex, query, b,
                                      limit, category)
         /\ \A category \in CategoryOptions, sortOrder \in SortOrders :
              getDocuments(documents', b, DefaultPage, DefaultListLimit,
                           category, "createdAt", sortOrder)
                = getDocuments(documents, b, DefaultPage, DefaultListLimit,
                               category, "createdAt", sortOrder)
    ]_vars

\* u1 has just deleted a document of its own while u2, which was indexed
\* under the same term, still finds its document
CrossOwnerFrameWitness ==
  /\ \E d \in deleting : d.userId = "u1"
  /\ documents["u1"] = <<>>
  /\ Len(searchKnowledgeBase(documents, documentIndex, <<"p","i","e">>, "u2",
                             DefaultLimit, NoCategory)) = 1

=============================================================================
